---- MODULE Spec2Model ----
(***************************************************************************)
(* Role-based user management backend (NestJS): the user store behind      *)
(* UsersService, the startup seed, the login flow (LocalStrategy,          *)
(* AuthService) and the guarded users endpoints (JwtAuthGuard, RolesGuard, *)
(* UsersController).                                                       *)
(*                                                                         *)
(* Strings the code inspects character by character (the role names, which *)
(* RolesGuard tests with String.prototype.includes) are sequences of       *)
(* characters.  A password value is a sequence of parts: a plaintext p is  *)
(* <<p>> and bcrypt.hash of a value v is <<"$2b$">> \o v, so that the text *)
(* of a digest can itself be hashed again, as SeedService does.  The salt  *)
(* of a digest is left out: a client never learns the digest that          *)
(* SeedService computes, so login passwords are drawn from the plaintexts. *)
(***************************************************************************)
EXTENDS Integers, Sequences, FiniteSets, TLC

VARIABLES users, nextId, seedPc, startedEmpty, now, tokens, req, resp, env,
          parked

vars == <<users, nextId, seedPc, startedEmpty, now, tokens, req, resp, env,
          parked>>

-----------------------------------------------------------------------------
(* Bounds of the model *)

\* uuids the store can generate (records ever created, the initial one included)
MaxIds == 2
\* application instances starting (each runs onModuleInit once)
NumInstances == 2
\* tokens the clients keep
MaxTokens == 1
\* the last instant (in minutes) the clock reaches
MaxTime == 80
\* longest Roles(...) declaration drawn for the guard on its own
MaxRoles == 3

\* signOptions: { expiresIn: '60m' }
TokenTTL == 60

\* the clock is read every two thirds of a token's life, so that an instant
\* falls strictly inside and one strictly beyond it
ClockStep == (2 * TokenTTL) \div 3

-----------------------------------------------------------------------------
(* enum UserRole *)

SUPERADMIN == <<"s", "u", "p", "e", "r", "a", "d", "m", "i", "n">>
ADMIN == <<"a", "d", "m", "i", "n">>
USER == <<"u", "s", "e", "r">>
UserRole == {SUPERADMIN, ADMIN, USER}

\* the absent value: findOne's undefined, validateUser's null, no bearer token
Null == [null |-> TRUE]

\* reflector.getAllAndOverride(ROLES_KEY, ...): undefined when neither the
\* handler nor the class carries the metadata, else the array that was set
NoMetadata == [defined |-> FALSE]

\* String.prototype.includes: t occurs in s as a contiguous substring
StringIncludes(s, t) ==
    \E i \in 0..(Len(s) - Len(t)) : SubSeq(s, i + 1, i + Len(t)) = t

\* Roles(...roles) == SetMetadata(ROLES_KEY, roles): the metadata is the array given
Roles(roles) == [defined |-> TRUE, roles |-> roles]

\* RolesGuard.canActivate: requiredRoles is what the reflector finds, user is
\* request.user.  !requiredRoles holds of undefined only: an empty array is
\* truthy.  user.role?.includes(role) is undefined (falsy) without a role.
canActivate(requiredRoles, user) ==
    IF ~requiredRoles.defined
    THEN TRUE
    ELSE \E k \in 1..Len(requiredRoles.roles) :
            /\ "role" \in DOMAIN user
            /\ StringIncludes(user.role, requiredRoles.roles[k])

-----------------------------------------------------------------------------
(* bcrypt *)

Digest == "$2b$"

\* bcrypt.hash(data, 10)
Hash(data) == <<Digest>> \o data

\* bcrypt.compare(data, encrypted): false for anything that is not the digest of data
Compare(data, encrypted) == encrypted = Hash(data)

-----------------------------------------------------------------------------
(* Inputs the callers draw from *)

Usernames == {"superadmin", "alice"}
\* what a client types at login
Plaintexts == {<<"superadmin">>, <<"pw">>}
\* the password of CreateUserDto and UpdateUserDto bodies
BodyPasswords == {<<"pw">>}
Ids == 1..MaxIds

\* CreateUserDto: username and password non-empty strings, role of the enum
CreateUserDto == [username : Usernames, password : BodyPasswords, role : UserRole]

\* UpdateUserDto: each of username, password, role optional (whitelisted by the
\* ValidationPipe).  The empty body is left out: the repository refuses it.
UpdateUserDto ==
    { [f \in D |-> full[f]] :
        full \in [username : Usernames, password : BodyPasswords, role : UserRole],
        D \in (SUBSET {"username", "password", "role"}) \ {{}} }

-----------------------------------------------------------------------------
(* Users entity and UsersService over the repository *)

\* Users: id (generated uuid), username, password, role.  No column is unique
\* but the primary key.
Users(id, username, password, role) ==
    [id |-> id, username |-> username, password |-> password, role |-> role]

\* UsersService.findOne(username): repository.findOne({ where: { username } }),
\* one of the matching rows, undefined when there is none.  The set of the
\* results it can give.
findOne(username) ==
    IF \E r \in users : r.username = username
    THEN {r \in users : r.username = username}
    ELSE {Null}

\* UsersService.create(username, password, role): the entity that is saved and
\* returned; the password given is hashed here.
create(username, password, role) ==
    Users(nextId, username, Hash(password), role)

\* repository.update(id, user): the rows with that id take the fields given
\* as they are
updateRows(id, user) ==
    { IF r.id = id
      THEN [f \in DOMAIN r |-> IF f \in DOMAIN user THEN user[f] ELSE r[f]]
      ELSE r : r \in users }

\* result.affected
affected(id) == Cardinality({r \in users : r.id = id})

\* UsersService.update(id, user): the store after it, and what it throws
update(id, user) ==
    [users |-> updateRows(id, user),
     threw |-> IF affected(id) = 0 THEN "NotFoundException" ELSE "none"]

\* UsersService.delete(id)
delete(id) ==
    [users |-> {r \in users : r.id # id},
     threw |-> IF affected(id) = 0 THEN "NotFoundException" ELSE "none"]

\* UsersService.findAll(): repository.find(), the rows as they are stored
findAll == users

-----------------------------------------------------------------------------
(* AuthService, the strategies and the JWT module *)

\* process.env.JWT_SECRET once dotenv has read .env: not set, or a string
Unset == [set |-> FALSE]
Set(value) == [set |-> TRUE, value |-> value]

\* the .env of the README
Configured == Set("my-secret-key")

\* the template literal `${v}`: the text of v, "undefined" for undefined
TemplateLiteral(v) == IF v.set THEN v.value ELSE "undefined"

\* secret: `${process.env.JWT_SECRET}` of JwtModule.register, and the
\* secretOrKey of JwtStrategy
JwtSecret == TemplateLiteral(env)

\* new JwtStrategy(): the passport-jwt Strategy throws "JwtStrategy requires a
\* secret or key" when secretOrKey is falsy, which of all strings only the
\* empty one is
JwtStrategyThrows == JwtSecret = ""

\* AuthService.validateUser(username, pass) once findOne has answered `user`:
\* the record without its password when bcrypt.compare accepts, else null
validateUser(user, pass) ==
    IF user # Null /\ Compare(pass, user.password)
    THEN [f \in (DOMAIN user) \ {"password"} |-> user[f]]
    ELSE Null

\* jwtService.sign(payload): the payload with iat and exp = iat + expiresIn,
\* signed with the module's secret
sign(payload, secret, t) ==
    [payload |-> [username |-> payload.username, sub |-> payload.sub,
                  role |-> payload.role, iat |-> t, exp |-> t + TokenTTL],
     secret |-> secret]

\* AuthService.login(user)
login(user, t) ==
    [access_token |->
        sign([username |-> user.username, sub |-> user.id, role |-> user.role],
             JwtSecret, t)]

\* LocalStrategy.validate as it would be if it reported an unknown username
LocalValidateRevealing(found, password, t) ==
    IF found = Null
    THEN [status |-> "NotFound", body |-> [message |-> "User not found"]]
    ELSE LET user == validateUser(found, password)
         IN  IF user = Null
             THEN [status |-> "Unauthorized", body |-> [message |-> "Unauthorized"]]
             ELSE [status |-> "OK", body |-> login(user, t)]

\* LocalStrategy.validate(username, password) once findOne has answered `found`,
\* then AuthController.login: the response of POST /auth/login
LocalValidate(found, password, t) ==
    LET user == validateUser(found, password)
    IN  IF user = Null
        THEN [status |-> "Unauthorized", body |-> [message |-> "Unauthorized"]]
        ELSE [status |-> "OK", body |-> login(user, t)]

\* token verification as it would be if it looked the subject up in the store
jwtVerifiedChecksStore(token, t) ==
    /\ token # Null
    /\ token.secret = JwtSecret
    /\ t < token.payload.exp
    /\ \E r \in users : r.id = token.payload.sub /\ r.role = token.payload.role

\* passport-jwt with ignoreExpiration: false and secretOrKey: the signature is
\* made with the same secret and the expiry has not come
jwtVerified(token, t) ==
    /\ token # Null
    /\ token.secret = JwtSecret
    /\ t < token.payload.exp

\* JwtStrategy.validate as it would be if it left the role claim out
validateNoRole(payload) ==
    [userId |-> payload.sub, username |-> payload.username]

\* JwtStrategy.validate(payload)
validate(payload) ==
    [userId |-> payload.sub, username |-> payload.username, role |-> payload.role]

\* a token a client made up, signed with a key of its own
ForgedToken ==
    [payload |-> [username |-> "superadmin", sub |-> 1, role |-> SUPERADMIN,
                  iat |-> 0, exp |-> MaxTime + TokenTTL],
     secret |-> "guessed"]

-----------------------------------------------------------------------------
(* UsersController: the Roles metadata of each handler *)

RouteRoles(op) ==
    CASE op = "create"  -> Roles(<<SUPERADMIN, ADMIN>>)
      [] op = "update"  -> Roles(<<SUPERADMIN, ADMIN>>)
      [] op = "delete"  -> Roles(<<SUPERADMIN>>)
      [] op = "findAll" -> Roles(<<SUPERADMIN, ADMIN>>)

\* what the catch block of each handler throws
NoAccess(op) ==
    [message |-> CASE op = "create" -> "No access to create user."
                   [] op = "update" -> "No access to update user."
                   [] op = "delete" -> "No access to delete user."]

-----------------------------------------------------------------------------
(* State *)

Idle == [state |-> "Idle"]

\* a request to /users as it arrives: the handler it is routed to, with the
\* Roles metadata of that handler, the :id of its path (Null on the routes
\* without one) and the bearer token of its header (Null without one).  The
\* body is drawn where it is read, in the handler: no guard looks at it.
Request(op, id, token) ==
    [state |-> "NoToken", op |-> op, id |-> id, token |-> token, user |-> Null,
     requiredRoles |-> RouteRoles(op)]

\* a response, with the request it answers: the operation, and the credentials
\* a login sent
Response(request, status, body) ==
    [request |-> request, status |-> status, body |-> body]

NoResponse == Response(Null, "none", Null)

Unauthorized(request) ==
    Response(request, "Unauthorized", [message |-> "Unauthorized"])

\* the database at startup: empty, or holding a record made earlier
InitialStores ==
    { {}, {Users(1, "superadmin", Hash(<<"pw">>), SUPERADMIN)} }

Instances == 1..NumInstances

Init ==
    /\ users \in InitialStores
    /\ nextId = Cardinality(users) + 1
    /\ startedEmpty = (users = {})
    /\ seedPc = [i \in Instances |-> "findOne"]
    /\ now = 0
    /\ tokens = {}
    /\ req = Idle
    /\ resp = NoResponse
    /\ env = Configured
    /\ parked = Idle

\* an instance serves requests once its onModuleInit has returned
Serving == \E i \in Instances : seedPc[i] = "done"

-----------------------------------------------------------------------------
(* SeedService.seed, run by AppModule.onModuleInit of each instance *)

\* seed() as it would be if it created the record without looking at what
\* findOne returned
SeedFindOneBlind(i) ==
    /\ seedPc[i] = "findOne"
    /\ seedPc' = [seedPc EXCEPT ![i] = "create"]
    /\ UNCHANGED <<users, nextId, startedEmpty, now, tokens, req, resp, env,
                 parked>>

\* const existingUser = await this.usersService.findOne(username)
SeedFindOne(i) ==
    /\ seedPc[i] = "findOne"
    /\ \E existingUser \in findOne("superadmin") :
          seedPc' = [seedPc EXCEPT ![i] =
                        IF existingUser = Null THEN "create" ELSE "done"]
    /\ UNCHANGED <<users, nextId, startedEmpty, now, tokens, req, resp, env,
                 parked>>

\* hashedPassword = await bcrypt.hash(password, 10);
\* await this.usersService.create(username, hashedPassword, role)
SeedCreate(i) ==
    /\ seedPc[i] = "create"
    /\ nextId <= MaxIds
    /\ LET hashedPassword == Hash(<<"superadmin">>)
       IN  users' = users \cup {create("superadmin", hashedPassword, SUPERADMIN)}
    /\ nextId' = nextId + 1
    /\ seedPc' = [seedPc EXCEPT ![i] = "done"]
    /\ UNCHANGED <<startedEmpty, now, tokens, req, resp, env,
                 parked>>

-----------------------------------------------------------------------------
(* The client sends one request at a time and waits for its response; the  *)
(* instances' seeds run beside it.                                         *)

Finished == req = Idle

\* the tokens a client holds once it has received `token`
Keep(token) ==
    IF Cardinality(tokens) < MaxTokens
    THEN {tokens \cup {token}}
    ELSE {(tokens \ {old}) \cup {token} : old \in tokens}

\* POST /auth/login: LocalAuthGuard, LocalStrategy.validate, AuthController.login
PostAuthLogin(username, password) ==
    /\ Serving
    /\ Finished
    /\ req' = Idle
    /\ \E found \in findOne(username) :
          LET r == LocalValidate(found, password, now)
          IN  /\ resp' = Response([op |-> "login", username |-> username,
                                    password |-> password], r.status, r.body)
              /\ IF r.status = "OK"
                 THEN tokens' \in Keep(r.body.access_token)
                 ELSE tokens' = tokens
    /\ UNCHANGED <<users, nextId, seedPc, startedEmpty, now, env,
                 parked>>

-----------------------------------------------------------------------------
(* A request to /users: UseGuards(JwtAuthGuard, RolesGuard), then the handler *)

Arrive(op, id, token) ==
    /\ Serving
    /\ Finished
    /\ req' = Request(op, id, token)
    /\ resp' = NoResponse
    /\ UNCHANGED <<users, nextId, seedPc, startedEmpty, now, tokens, env,
                 parked>>

\* the bearer tokens a client can send: one it was issued, one it made up, none
Bearers == tokens \cup {ForgedToken, Null}

Begin ==
    \E token \in Bearers :
       \/ \E op \in {"create", "findAll"} : Arrive(op, Null, token)
       \/ \E op \in {"update", "delete"}, id \in Ids : Arrive(op, id, token)

\* the request a response answers
Answered == [op |-> req.op]

\* JwtAuthGuard: the token is verified and request.user is what
\* JwtStrategy.validate returns; otherwise the request ends with 401
JwtAuthGuard ==
    /\ req.state = "NoToken"
    /\ IF jwtVerified(req.token, now)
       THEN /\ req' = [req EXCEPT !.state = "Authenticated",
                                  !.user = validate(req.token.payload)]
            /\ resp' = resp
       ELSE /\ req' = Idle
            /\ resp' = Unauthorized(Answered)
    /\ UNCHANGED <<users, nextId, seedPc, startedEmpty, now, tokens, env,
                 parked>>

\* RolesGuard as it would be if it answered 403 and let the request go on
RolesGuardGoesOn ==
    /\ req.state = "Authenticated"
    /\ req' = [req EXCEPT !.state = "Permitted"]
    /\ resp' = IF canActivate(req.requiredRoles, req.user)
               THEN resp
               ELSE Response(Answered, "Forbidden",
                             [message |-> "Forbidden resource"])
    /\ UNCHANGED <<users, nextId, seedPc, startedEmpty, now, tokens, env,
                   parked>>

\* RolesGuard: false ends the request with 403
RolesGuard ==
    /\ req.state = "Authenticated"
    /\ IF canActivate(req.requiredRoles, req.user)
       THEN /\ req' = [req EXCEPT !.state = "Permitted"]
            /\ resp' = resp
       ELSE /\ req' = Idle
            /\ resp' = Response(Answered, "Forbidden",
                                 [message |-> "Forbidden resource"])
    /\ UNCHANGED <<users, nextId, seedPc, startedEmpty, now, tokens, env,
                 parked>>

\* UsersController.create: the saved entity is the response
PostUsers ==
    /\ req.state = "Permitted" /\ req.op = "create"
    /\ nextId <= MaxIds
    /\ \E createUserDto \in CreateUserDto :
          LET user == create(createUserDto.username, createUserDto.password,
                             createUserDto.role)
          IN  /\ users' = users \cup {user}
              /\ resp' = Response(Answered, "OK", [entity |-> user])
    /\ nextId' = nextId + 1
    /\ req' = Idle
    /\ UNCHANGED <<seedPc, startedEmpty, now, tokens, env,
                 parked>>

\* UsersController.update: whatever the service throws becomes a ForbiddenException
PutUsers ==
    /\ req.state = "Permitted" /\ req.op = "update"
    /\ \E updateUserDto \in UpdateUserDto :
       LET result == update(req.id, updateUserDto)
       IN  /\ users' = result.users
           /\ resp' = IF result.threw = "none"
                      THEN Response(Answered, "OK",
                                    [message |-> "User updated successfully."])
                      ELSE Response(Answered, "Forbidden", NoAccess("update"))
    /\ req' = Idle
    /\ UNCHANGED <<nextId, seedPc, startedEmpty, now, tokens, env,
                 parked>>

\* UsersController.delete
DeleteUsers ==
    /\ req.state = "Permitted" /\ req.op = "delete"
    /\ LET result == delete(req.id)
       IN  /\ users' = result.users
           /\ resp' = IF result.threw = "none"
                      THEN Response(Answered, "OK",
                                    [message |-> "User deleted successfully."])
                      ELSE Response(Answered, "Forbidden", NoAccess("delete"))
    /\ req' = Idle
    /\ UNCHANGED <<nextId, seedPc, startedEmpty, now, tokens, env,
                 parked>>

\* UsersController.findAll
GetUsers ==
    /\ req.state = "Permitted" /\ req.op = "findAll"
    /\ resp' = Response(Answered, "OK", [entities |-> findAll])
    /\ req' = Idle
    /\ UNCHANGED <<users, nextId, seedPc, startedEmpty, now, tokens, env,
                 parked>>

\* wall-clock time passes
Tick ==
    /\ now + ClockStep <= MaxTime
    /\ now' = now + ClockStep
    /\ UNCHANGED <<users, nextId, seedPc, startedEmpty, tokens, req, resp, env,
                 parked>>

Next ==
    \/ \E i \in Instances : SeedFindOne(i)
    \/ \E i \in Instances : SeedCreate(i)
    \/ \E username \in Usernames, password \in Plaintexts :
          PostAuthLogin(username, password)
    \/ Begin
    \/ JwtAuthGuard
    \/ RolesGuard
    \/ PostUsers
    \/ PutUsers
    \/ DeleteUsers
    \/ GetUsers
    \/ Tick

Spec == Init /\ [][Next]_vars

-----------------------------------------------------------------------------
(* RolesGuard on its own: canActivate applied to every identity and every  *)
(* Roles declaration of up to MaxRoles roles, and to a route without one   *)

RoleLists == UNION { [1..n -> UserRole] : n \in 0..MaxRoles }

Declarations == {NoMetadata} \cup { Roles(roles) : roles \in RoleLists }

\* request.user as JwtStrategy.validate builds it, and one whose token
\* carries no role claim
Identities ==
    { [userId |-> 1, username |-> "alice", role |-> role] : role \in UserRole }
        \cup { [userId |-> 1, username |-> "alice"] }

InitGuard ==
    /\ users = {}
    /\ nextId = 1
    /\ startedEmpty = TRUE
    /\ seedPc = [i \in Instances |-> "done"]
    /\ now = 0
    /\ tokens = {}
    /\ resp = NoResponse
    /\ env = Configured
    /\ parked = Idle
    /\ \E user \in Identities, requiredRoles \in Declarations :
          req = [state |-> "Authenticated", op |-> "findAll", id |-> Null,
                 token |-> Null, user |-> user, requiredRoles |-> requiredRoles]

SpecGuard == InitGuard /\ [][RolesGuard]_vars

-----------------------------------------------------------------------------
(* SeedService.seed on its own, called in sequence: a call begins only when *)
(* no other call is between its findOne and its create.  It is run against *)
(* the empty store and against every store of one record; an instance that *)
(* is started again calls seed() again.                                    *)

\* the password column of a record made earlier: a digest, the digest of a
\* digest (as SeedService saves it), a plaintext (as update saves it)
StoredPasswords == {Hash(<<"pw">>), Hash(Hash(<<"superadmin">>)), <<"pw">>}

SeedStores ==
    { {} } \cup { {Users(1, username, password, role)} :
                     username \in Usernames, password \in StoredPasswords,
                     role \in UserRole }

InitSeed ==
    /\ users \in SeedStores
    /\ nextId = Cardinality(users) + 1
    /\ startedEmpty = (users = {})
    /\ seedPc = [i \in Instances |-> "findOne"]
    /\ now = 0
    /\ tokens = {}
    /\ req = Idle
    /\ resp = NoResponse
    /\ env = Configured
    /\ parked = Idle

\* a call of seed() is under way
Seeding == \E i \in Instances : seedPc[i] = "create"

\* seed() is called while no other call is under way
SeedCall(i) == ~Seeding /\ SeedFindOne(i)

\* the instance is started again: onModuleInit runs at every start
Restart(i) ==
    /\ seedPc[i] = "done"
    /\ seedPc' = [seedPc EXCEPT ![i] = "findOne"]
    /\ UNCHANGED <<users, nextId, startedEmpty, now, tokens, req, resp, env,
                 parked>>

NextSeed ==
    \/ \E i \in Instances : SeedCall(i)
    \/ \E i \in Instances : SeedCreate(i)
    \/ \E i \in Instances : Restart(i)

SpecSeed == InitSeed /\ [][NextSeed]_vars

-----------------------------------------------------------------------------
(* The application started under every environment: JWT_SECRET not set, set *)
(* to the empty string, set as the README has it.  Nest builds the          *)
(* providers of AuthModule, then runs onModuleInit, then listens.           *)

Environments == {Unset, Set(""), Configured}

InitStartup ==
    /\ users \in InitialStores
    /\ nextId = Cardinality(users) + 1
    /\ startedEmpty = (users = {})
    /\ seedPc = [i \in Instances |-> "boot"]
    /\ now = 0
    /\ tokens = {}
    /\ req = Idle
    /\ resp = NoResponse
    /\ env \in Environments
    /\ parked = Idle

\* the providers are built: the start fails when a constructor throws
Boot(i) ==
    /\ seedPc[i] = "boot"
    /\ seedPc' = [seedPc EXCEPT ![i] =
                     IF JwtStrategyThrows THEN "failed" ELSE "findOne"]
    /\ UNCHANGED <<users, nextId, startedEmpty, now, tokens, req, resp, env,
                 parked>>

NextStartup ==
    \/ \E i \in Instances : Boot(i)
    \/ \E i \in Instances : SeedFindOne(i)
    \/ \E i \in Instances : SeedCreate(i)
    \/ \E username \in Usernames, password \in Plaintexts :
          PostAuthLogin(username, password)
    \/ Begin
    \/ JwtAuthGuard
    \/ RolesGuard
    \/ PostUsers
    \/ PutUsers
    \/ DeleteUsers
    \/ GetUsers

SpecStartup == InitStartup /\ [][NextStartup]_vars

-----------------------------------------------------------------------------
(* Two requests in flight at once.  The server runs one step (a guard, a    *)
(* handler) at a time and may turn from one request to the other between   *)
(* any two steps: req is the request whose step comes next, parked the one *)
(* that waits.  The instances have started on a store made earlier.        *)

\* the stores of one record, whatever role it has been given
RequestStores ==
    { {Users(1, "superadmin", Hash(<<"pw">>), role)} : role \in UserRole }

\* the account has logged in: the client holds its token
InitRequests ==
    /\ users \in RequestStores
    /\ nextId = Cardinality(users) + 1
    /\ startedEmpty = FALSE
    /\ seedPc = [i \in Instances |-> "done"]
    /\ now = 0
    /\ env = Configured
    /\ tokens = { login(user, now).access_token : user \in users }
    /\ req = Idle
    /\ resp = NoResponse
    /\ parked = Idle

\* the event loop turns to the other request
Switch ==
    /\ req.state # "Idle" \/ parked.state # "Idle"
    /\ req' = parked
    /\ parked' = req
    /\ UNCHANGED <<users, nextId, seedPc, startedEmpty, now, tokens, resp, env>>

NextRequests ==
    \/ Begin
    \/ JwtAuthGuard
    \/ RolesGuard
    \/ PostUsers
    \/ PutUsers
    \/ DeleteUsers
    \/ GetUsers
    \/ Switch

SpecRequests == InitRequests /\ [][NextRequests]_vars

-----------------------------------------------------------------------------
(* Properties *)

\* the set of the roles a Roles declaration lists
RoleSet(requiredRoles) ==
    { requiredRoles.roles[k] : k \in 1..Len(requiredRoles.roles) }

\* the step in which RolesGuard decides about the request in flight
GuardDecides == req.state = "Authenticated" /\ req' # req

\* C1: for an identity with a role and a non-empty required-role set R, the
\* role check allows if and only if the identity's role is an element of R,
\* by exact equality (SUPERADMIN is denied on {ADMIN}).
C1_AllowsIffRoleIsMember ==
    [][ ( /\ GuardDecides
          /\ req.requiredRoles.defined
          /\ RoleSet(req.requiredRoles) # {}
          /\ "role" \in DOMAIN req.user )
        => ( req'.state = "Permitted"
               <=> req.user.role \in RoleSet(req.requiredRoles) ) ]_vars

\* C2: when the required-role set is empty (a Roles declaration with no role)
\* or absent, the role check allows every identity, whatever its role.
C2_EmptyOrAbsentAllows ==
    [][ ( /\ GuardDecides
          /\ ( ~req.requiredRoles.defined \/ RoleSet(req.requiredRoles) = {} ) )
        => req'.state = "Permitted" ]_vars

\* the plaintext passwords callers supply: SeedService's own, and those of
\* the request bodies
SuppliedPlaintexts == {<<"superadmin">>} \cup BodyPasswords

\* C3: the password of every stored record is PasswordHasher.hash applied
\* exactly once to a plaintext a caller supplied; never the plaintext, never a
\* digest of a digest.
C3_StoredPasswordHashedOnce ==
    \A r \in users : \E p \in SuppliedPlaintexts : r.password = Hash(p)

\* C4: from an empty store, once seed() has run, the login with username
\* "superadmin" and password "superadmin" succeeds, its token carries the role
\* SUPERADMIN, and that token is permitted on the SUPERADMIN-only delete.
C4_SeededSuperadminLogsIn ==
    ( startedEmpty /\ \E i \in Instances : seedPc[i] = "done" )
    => \A found \in findOne("superadmin") :
          LET r == LocalValidate(found, <<"superadmin">>, now)
          IN  /\ r.status = "OK"
              /\ r.body.access_token.payload.role = SUPERADMIN
              /\ jwtVerified(r.body.access_token, now)
              /\ canActivate(RouteRoles("delete"),
                             validate(r.body.access_token.payload))

\* C5: no two stored user records have the same username.
C5_UsernamesUnique ==
    \A r1 \in users, r2 \in users : r1.username = r2.username => r1 = r2

\* the user records a response body carries
Entities(body) ==
    IF body = Null THEN {}
    ELSE IF "entity" \in DOMAIN body THEN {body.entity}
    ELSE IF "entities" \in DOMAIN body THEN body.entities
    ELSE {}

\* C6: nothing returned by login, validateUser, create (POST /users) or
\* findAll (GET /users) contains a password field, hence no stored digest.
C6_NoPasswordReturned ==
    /\ \A e \in Entities(resp.body) : "password" \notin DOMAIN e
    /\ \A r \in users, p \in Plaintexts :
          LET user == validateUser(r, p)
          IN  user # Null =>
                 /\ "password" \notin DOMAIN user
                 /\ "password" \notin DOMAIN login(user, now).access_token.payload

\* the step in which the update or delete handler runs on an id no record has
HandlerMissesId ==
    /\ req.state = "Permitted"
    /\ req.op \in {"update", "delete"}
    /\ \A r \in users : r.id # req.id
    /\ req' = Idle

\* C7: a permitted update or delete whose id matches no record ends with
\* NotFound as the caller sees it, and leaves the store unchanged.
C7_MissingIdIsNotFound ==
    [][ HandlerMissesId => ( resp'.status = "NotFound" /\ users' = users ) ]_vars

\* C8: a login with a username that has no record and a login with the wrong
\* password for an existing username get the same response: Unauthorized, with
\* no token.
C8_LoginFailuresIndistinguishable ==
    \A u1 \in Usernames, u2 \in Usernames, p1 \in Plaintexts, p2 \in Plaintexts :
       \A f1 \in findOne(u1), f2 \in findOne(u2) :
          ( f1 = Null /\ f2 # Null /\ ~Compare(p2, f2.password) )
          => /\ LocalValidate(f1, p1, now) = LocalValidate(f2, p2, now)
             /\ LocalValidate(f1, p1, now).status = "Unauthorized"
             /\ "access_token" \notin DOMAIN LocalValidate(f1, p1, now).body

\* a login with the wrong password for a username that exists has been
\* answered Unauthorized, while another username has no record
C8_Witness ==
    /\ "username" \in DOMAIN resp.request
    /\ resp.status = "Unauthorized"
    /\ \E r \in users : r.username = resp.request.username
    /\ \A r \in users : r.username = resp.request.username
                           => ~Compare(resp.request.password, r.password)
    /\ \E u \in Usernames : findOne(u) = {Null}

\* the instants a token is tried at: now, and the minutes next to its expiry
Instants(token) ==
    {now, token.payload.iat + TokenTTL - 1, token.payload.iat + TokenTTL + 1}

\* C9: whether a token issued at login verifies depends on the token and the
\* time alone: at every instant before issuedAt + 60 minutes it is accepted,
\* with the role it carries, whatever has happened to the user's record since;
\* at every instant after, it is rejected.
C9_TokenValidUntilExpiryWhateverTheStore ==
    /\ \A token \in tokens : \A t \in Instants(token) :
          /\ t < token.payload.iat + TokenTTL
                => ( jwtVerified(token, t)
                     /\ validate(token.payload).role = token.payload.role )
          /\ t > token.payload.iat + TokenTTL => ~jwtVerified(token, t)
    /\ ( req.state \in {"Authenticated", "Permitted"} /\ req.token \in tokens )
          => req.user.role = req.token.payload.role

\* a request is authenticated with an issued token whose user record is gone
C9_Witness ==
    /\ req.state = "Authenticated"
    /\ req.token \in tokens
    /\ now < req.token.payload.iat + TokenTTL
    /\ \A r \in users : r.id # req.token.payload.sub

\* C10: for every identity (id, username, role), the token login issues for it
\* verifies at every instant before its expiry and yields userId = id, with the
\* same username and role.
C10_VerifyOfIssuedTokenIsIdentity ==
    \A r \in users :
       LET user  == [id |-> r.id, username |-> r.username, role |-> r.role]
           token == login(user, now).access_token
       IN  /\ \A t \in {now, now + TokenTTL - 1} : jwtVerified(token, t)
           /\ validate(token.payload) =
                 [userId |-> r.id, username |-> r.username, role |-> r.role]

\* a request is authenticated as the user whose login issued its token
C10_Witness ==
    /\ req.state = "Authenticated"
    /\ req.token \in tokens
    /\ \E r \in users :
          req.user = [userId |-> r.id, username |-> r.username, role |-> r.role]

\* the records named "superadmin"
Superadmins == {r \in users : r.username = "superadmin"}

\* C11: with seed() called in sequence, a step taken while a record named
\* "superadmin" exists leaves the user store as it is, and the call of seed()
\* that begins then ends at once, without creating; started on an empty
\* store, the store never holds two "superadmin" records, and holds exactly
\* one whenever a call of seed() has returned.
C11_SeedLeavesExistingSuperadmin ==
    /\ [][ Superadmins # {} =>
             /\ users' = users
             /\ \A i \in Instances :
                   seedPc[i] = "findOne" /\ seedPc'[i] # "findOne"
                      => seedPc'[i] = "done" ]_vars
    /\ [](startedEmpty =>
             /\ Cardinality(Superadmins) <= 1
             /\ (\E i \in Instances : seedPc[i] = "done")
                   => Cardinality(Superadmins) = 1)

\* started on an empty store, every instance has called seed() and the second
\* call found the record of the first
C11_Witness ==
    /\ startedEmpty
    /\ \A i \in Instances : seedPc[i] = "done"
    /\ Cardinality(Superadmins) = 1
    /\ nextId = 2

\* JWT_SECRET is not set, or is set to the empty string
SecretMissing == env = Unset \/ env = Set("")

\* C12: when JWT_SECRET is absent or empty the start fails: no instance gets
\* past the building of its providers, no token is issued and no request to
\* /auth/login or /users is taken or answered.
C12_NoStartWithoutSecret ==
    SecretMissing =>
        /\ \A i \in Instances : seedPc[i] \in {"boot", "failed"}
        /\ tokens = {}
        /\ req = Idle
        /\ resp = NoResponse

\* a and b are the same request at the same point of its way
SameRequest(a, b) ==
    /\ a.state = b.state
    /\ a.state # "Idle" =>
          /\ a.op = b.op
          /\ a.id = b.id
          /\ a.token = b.token
          /\ a.user = b.user

\* the request goes on to the state `state`, nothing being answered yet
GoesOnTo(state) ==
    /\ req'.state = state
    /\ req'.op = req.op
    /\ req'.id = req.id
    /\ req'.token = req.token
    /\ resp' = resp

\* the request is over, answered with `status`
EndsWith(status) == req' = Idle /\ resp'.status \in status

\* the 403 of RolesGuard (the handlers' catch blocks word theirs otherwise)
ForbiddenResource ==
    /\ resp'.status = "Forbidden"
    /\ resp'.body = [message |-> "Forbidden resource"]

\* C13: with two requests to /users in flight and the server turning from
\* one to the other between any two steps, every step of a request is one of
\* NoToken -> Authenticated, NoToken -> over with 401 (Rejected),
\* Authenticated -> Permitted, Authenticated -> over with the guard's 403
\* (Forbidden), Permitted -> over (the handler has run); a request that goes
\* on is not answered; and the user store changes only in the step of a
\* request that is Permitted, the other request being left as it is.
C13_RequestWayAndFrame ==
    [][ \/ /\ SameRequest(req', parked)
           /\ SameRequest(parked', req)
           /\ users' = users
        \/ /\ SameRequest(parked', parked)
           /\ users' # users => req.state = "Permitted"
           /\ CASE req.state = "Idle" -> req'.state \in {"Idle", "NoToken"}
                [] req.state = "NoToken" ->
                      \/ GoesOnTo("Authenticated")
                      \/ EndsWith({"Unauthorized"}) /\ users' = users
                [] req.state = "Authenticated" ->
                      \/ GoesOnTo("Permitted") /\ req'.user = req.user
                      \/ EndsWith({"Forbidden"}) /\ ForbiddenResource
                                                 /\ users' = users
                [] req.state = "Permitted" ->
                      EndsWith({"OK", "Forbidden"}) /\ ~ForbiddenResource
      ]_vars

\* a request has just ended Forbidden while another, Permitted, is in flight,
\* and the store is no longer the one of the start
C13_Witness ==
    /\ req = Idle
    /\ parked.state = "Permitted"
    /\ resp.status = "Forbidden"
    /\ resp.body = [message |-> "Forbidden resource"]
    /\ users \notin RequestStores

====
